---- MODULE Spec2Model ----
(***************************************************************************)
(* Model of the client side of the collaborative editor:                  *)
(*   - CollaborationManager (frontend/src/services/documentService.ts):   *)
(*     connection life cycle, reconnection, outgoing queue, Yjs relay;    *)
(*   - AwarenessManager (presence list and cursor map);                    *)
(*   - the synchronisation server, which is not part of the sources and   *)
(*     is modelled from the protocol contract (websocket-protocol.md).    *)
(* The Yjs document is modelled as the set of the fragments applied to it *)
(* (Y.applyUpdate is set union: commutative, associative, idempotent).    *)
(***************************************************************************)
EXTENDS Integers, Sequences, FiniteSets, TLC

\* ---------------------------------------------------------------------------
\* Bounds of the model
\* ---------------------------------------------------------------------------
MaxSockets == 2
MaxEdits == 1
MaxPings == 1
AttemptCap == 11
RetryCap == 1
MaxPos == 1
MaxContent == 2
MaxAge == 17
MaxInFlight == 1
MaxBurst == 11
HeartbeatRetryCap == 2

\* ---------------------------------------------------------------------------
\* Program constants
\* ---------------------------------------------------------------------------
maxReconnectAttempts == 10
BaseDelay == 1000
MaxDelay == 30000
NormalClosure == 1000
AutoSaveDelay == 15
MaxAwarenessRate == 10

Clients == {"c1", "c2"}
Solo == "c1"
Socks == 1..MaxSockets
Frags == Clients \X (1..MaxEdits)
CloseCodes == {1000, 1001, 1006, 1008, 1011, 4003, 4004}
FatalCodes == {1008, 4003, 4004}

\* Document contents; the document is loaded with LoadedContent.
Contents == 0..MaxContent
LoadedContent == 0
\* Titles a user can type; the document is loaded with LoadedTitle.
Titles == {"", " ", "A", " B"}
LoadedTitle == "A"
NoRequest == [pending |-> FALSE, content |-> LoadedContent, title |-> LoadedTitle]
NoTitleRequest == [pending |-> FALSE, title |-> LoadedTitle]
NoneSent == [sent |-> FALSE, path |-> "none", title |-> LoadedTitle]
Accounts == {"u1", "u2"}
NoAccount == "nobody"
Emails == {"", " ", "a@x"}
NoMessage == "null"
SearchResults == {<<>>} \cup {<<u>> : u \in Accounts}
                   \cup {<<u, v>> : u \in Accounts, v \in Accounts}
NoLateSave == [pending |-> FALSE, content |-> LoadedContent,
               title |-> LoadedTitle, stored |-> FALSE]
NoTimer == [pending |-> FALSE, left |-> 0]

VARIABLES
  yDoc,               \* [c] set of fragments applied to the local Y.Doc
  websocket,          \* [c] this.websocket: 0 (null) or a socket
  readyState,         \* [c][s] WebSocket.readyState, "NONE" for an unused slot
  reconnectAttempts,  \* [c]
  reconnectTimeout,   \* [c] 0 (null) or the delay (ms) of the pending timer
  isConnected,        \* [c]
  messageQueue,       \* [c] sequence of messages
  hung,               \* [c] flushMessageQueue is in a loop that never ends
  destroyed,          \* [c] destroy() was called: the Y.Doc has no observers
  sent,               \* [c][s] messages handed to websocket.send on socket s
  nextEdit,           \* [c] number of local edits made so far
  \* history variables (read by the properties only)
  last,               \* [c] the last handler that ran, with its argument
  synced,             \* [c][s] a sync_step2 was applied on socket s
  everSent,           \* [c] fragments transmitted in a sync_update
  offlineEdits,       \* [c] fragments edited while the transport was down
  delays,             \* [c] delays scheduled since the last onopen
  afterDisconnect,    \* [c] "new" | "no" | "yes" | "reopened"
  pinged,             \* [c][s] pings received on socket s
  heard,              \* [c] users heard of on the current connection
  \* the synchronisation server (modelled from the protocol contract)
  srvDoc,             \* merge state of the document session
  conns,              \* registered connections <<c, s>>
  s2c,                \* [c][s] messages in flight to socket s of client c
  \* AwarenessManager of each client, and the presence traffic it receives
  activeUsers,        \* [c] list of the users shown as active
  cursors,            \* [c] map user_id -> last awareness entry
  present,            \* users that are connected to the document
  relay,              \* presence messages published (at-least-once, unordered)
  leftSeen,           \* [c] users whose user_left was processed since they joined
  localState,         \* [c] cursor position in the local awareness state
  \* DocumentEditPage and its CodeMirrorEditor
  editorContent,      \* content of the editor view
  documentContent,    \* document.content of the page state
  hasUnsavedChanges,  \* the flag behind the Save button and the status text
  autoSaveTimer,      \* the live auto-save timer: [pending, left]
  inFlight,           \* the save request in flight: [pending, content]
  storedContent,      \* content the storage holds
  sinceEdit,          \* [waiting, age]: the oldest edit no save request has followed
  lastAutoSave,       \* the last request of the auto-save timer: [made, content, editor]
  \* the title of DocumentEditPage and the create form of DocumentsPage
  titleValue,         \* the state behind the title input
  docTitle,           \* document.title of the page state
  editingTitle,       \* the title input is shown
  titleFocus,         \* the title input has the focus
  titleReq,           \* the title update request in flight: [pending, title]
  newDocTitle,        \* the state behind the input of the create form
  lastRequest,        \* the last create or update request: [sent, path, title]
  \* overlapping save requests and the count of auto-saves
  lateSave,           \* a save request made while another is in flight: [pending, content, title, stored]
  autoSaves,          \* auto-save requests since the user's last change
  \* ShareDialog
  emailInput,         \* the state behind the email input
  loading,            \* the loading flag
  error,              \* the error shown, NoMessage for null
  successMessage,     \* the success message shown, NoMessage for null
  collaborators,      \* the collaborators listed
  sharePhase,         \* where handleShare stands: "idle", "search", "share"
  searchData,         \* data of the last response of the email search
  shareUser,          \* user_ids[0] of the share request
  sharedWith,         \* the collaborators the server holds
  \* the transport
  sendThrows,         \* [c] websocket.send throws when it is called
  \* the clock of the awareness traffic
  burst               \* [c] awareness_update messages transmitted in the current second

mgrVars == <<yDoc, websocket, readyState, reconnectAttempts, reconnectTimeout,
             isConnected, messageQueue, hung, destroyed, sent, nextEdit>>
histVars == <<last, synced, everSent, offlineEdits, delays, afterDisconnect,
              pinged, heard>>
srvVars == <<srvDoc, conns, s2c>>
awVars == <<activeUsers, cursors, present, relay, leftSeen, localState>>
pageVars == <<editorContent, documentContent, hasUnsavedChanges, autoSaveTimer,
              inFlight, storedContent, sinceEdit, lastAutoSave>>
netVars == <<sendThrows>>
saveVars == <<lateSave, autoSaves>>
shareVars == <<emailInput, loading, error, successMessage, collaborators,
               sharePhase, searchData, shareUser, sharedWith>>
rateVars == <<burst>>
titleVars == <<titleValue, docTitle, editingTitle, titleFocus, titleReq,
               newDocTitle, lastRequest>>
envVars == <<srvVars, awVars, pageVars, rateVars, titleVars, netVars, saveVars,
            shareVars>>
vars == <<mgrVars, histVars, srvVars, awVars, pageVars, rateVars, titleVars, netVars,
         saveVars, shareVars>>

\* ---------------------------------------------------------------------------
\* Helpers
\* ---------------------------------------------------------------------------
Min(a, b) == IF a < b THEN a ELSE b

RECURSIVE Pow2(_)
Pow2(n) == IF n = 0 THEN 1 ELSE 2 * Pow2(n - 1)

\* arrayBufferToBase64 / base64ToArrayBuffer: the wire carries the encoded
\* form of an update, which is not the update itself.
arrayBufferToBase64(u) == [b64 |-> u]
base64ToArrayBuffer(b) == b.b64

\* A closed socket that the manager no longer references can raise no event
\* and is never read again: its slot is free.
Collect(rs, ws) ==
  [s \in Socks |-> IF rs[s] = "CLOSED" /\ s # ws THEN "NONE" ELSE rs[s]]

FreeSlots(rs) == {s \in Socks : rs[s] = "NONE"}
NewSocket(rs) == CHOOSE s \in FreeSlots(rs) : \A t \in FreeSlots(rs) : s <= t

UpdatesIn(q) == UNION {base64ToArrayBuffer(q[i].update) :
                         i \in {j \in 1..Len(q) : q[j].type = "sync_update"}}

\* ---------------------------------------------------------------------------
\* CollaborationManager: private methods, as functions of the fields they
\* read and write
\* ---------------------------------------------------------------------------

\* A sendMessage that drops the message when it cannot send it.
sendMessageDropping(ws, rs, q, out, m, throws) ==
  IF ws = 0 \/ rs[ws] # "OPEN" \/ throws
    THEN [queue |-> q, out |-> out]
    ELSE [queue |-> q, out |-> [out EXCEPT ![ws] = Append(@, m)]]

\* sendMessage: the message is pushed on the queue when there is no current
\* socket or it is not OPEN, and when websocket.send throws (the catch
\* branch); it is sent otherwise.
sendMessage(ws, rs, q, out, m, throws) ==
  IF ws = 0 \/ rs[ws] # "OPEN" \/ throws
    THEN [queue |-> Append(q, m), out |-> out]
    ELSE [queue |-> q, out |-> [out EXCEPT ![ws] = Append(@, m)]]

\* flushMessageQueue: while (queue.length > 0 && isConnected) send the head.
\* With the current socket not OPEN, or with a send that keeps throwing,
\* every shifted message is pushed back, so the loop does not end (diverges).
RECURSIVE flushLoop(_, _, _, _)
flushLoop(ws, rs, q, out) ==
  IF q = <<>>
    THEN [queue |-> q, out |-> out]
    ELSE LET r == sendMessage(ws, rs, Tail(q), out, Head(q), FALSE)
         IN  flushLoop(ws, rs, r.queue, r.out)

flushMessageQueue(ws, rs, q, out, conn, throws) ==
  IF q = <<>> \/ ~conn
    THEN [queue |-> q, out |-> out, diverges |-> FALSE]
    ELSE IF ws = 0 \/ rs[ws] # "OPEN" \/ throws
      THEN [queue |-> q, out |-> out, diverges |-> TRUE]
      ELSE LET r == flushLoop(ws, rs, q, out)
           IN  [queue |-> r.queue, out |-> r.out, diverges |-> FALSE]

\* Variants of ReconnectDelay: without the 30 s cap, and without the 1 s base.
ReconnectDelayUncapped(attempts) == BaseDelay * Pow2(attempts)
ReconnectDelayNoBase(attempts) == Min(Pow2(attempts), MaxDelay)

\* The delay of scheduleReconnect for a given value of reconnectAttempts.
ReconnectDelay(attempts) == Min(BaseDelay * Pow2(attempts), MaxDelay)

\* A scheduleReconnect without the test for a pending timer.
scheduleReconnectAgain(timeout, attempts) ==
  [timeout |-> ReconnectDelay(attempts), attempts |-> attempts + 1,
   scheduled |-> TRUE]

\* scheduleReconnect: nothing if a timer is pending.
scheduleReconnect(timeout, attempts) ==
  IF timeout # 0
    THEN [timeout |-> timeout, attempts |-> attempts, scheduled |-> FALSE]
    ELSE [timeout |-> ReconnectDelay(attempts), attempts |-> attempts + 1,
          scheduled |-> TRUE]

\* Variant of ShouldReconnect that gives up one attempt early.
ShouldReconnectOneShort(code, attempts) ==
  code # NormalClosure /\ attempts < maxReconnectAttempts - 1

\* onclose: reconnect unless the closure is normal or the attempts are used up.
ShouldReconnect(code, attempts) ==
  code # NormalClosure /\ attempts < maxReconnectAttempts


\* ---------------------------------------------------------------------------
\* Messages of the wire protocol
\* ---------------------------------------------------------------------------
SyncStep1 == [type |-> "sync_step1"]
SyncStep2(state) == [type |-> "sync_step2", state |-> arrayBufferToBase64(state)]
SyncUpdate(u) == [type |-> "sync_update", update |-> arrayBufferToBase64(u)]
Pong == [type |-> "pong"]
Ping == [type |-> "ping"]
ErrorMsg == [type |-> "error"]
ServerShutdown(r) == [type |-> "server_shutdown", reconnect |-> r]
UnknownMsg == [type |-> "heartbeat_ping"]

\* The history variable last tells the close events and the shutdown notices
\* from everything else.
Event(op) == [op |-> "other", code |-> 0, reconnect |-> FALSE]

SentUpdates(out) == UNION {UpdatesIn(out[s]) : s \in Socks}
\* The number of pongs in the outgoing queue and on the wire.
RECURSIVE Count(_, _)
Count(q, type) ==
  IF q = <<>> THEN 0
  ELSE (IF Head(q).type = type THEN 1 ELSE 0) + Count(Tail(q), type)
RECURSIVE CountOut(_, _, _)
CountOut(out, n, type) ==
  IF n = 0 THEN 0 ELSE Count(out[n], type) + CountOut(out, n - 1, type)
Pongs(c) == Count(messageQueue[c], "pong") + CountOut(sent[c], MaxSockets, "pong")

\* The transport of c is closed, or a reconnect is pending.
Offline(c) ==
  \/ reconnectTimeout[c] # 0
  \/ websocket[c] # 0 /\ readyState[c][websocket[c]] = "CLOSED"

\* The message event of a socket is dispatched only while it is OPEN.
Receiving(c, s) == ~hung[c] /\ readyState[c][s] = "OPEN"

\* ---------------------------------------------------------------------------
\* CollaborationManager: public methods
\* ---------------------------------------------------------------------------

\* The body of connect(): a new WebSocket replaces this.websocket; the socket
\* it replaces is not closed.
connect(c) ==
  LET rs == Collect(readyState[c], 0)
      s  == NewSocket(rs)
  IN  /\ FreeSlots(rs) # {}
      /\ websocket' = [websocket EXCEPT ![c] = s]
      /\ readyState' = [readyState EXCEPT ![c] = [rs EXCEPT ![s] = "CONNECTING"]]
      /\ sent' = [sent EXCEPT ![c][s] = <<>>]
      /\ synced' = [synced EXCEPT ![c][s] = FALSE]
      /\ pinged' = [pinged EXCEPT ![c][s] = 0]

\* connect() called by the application: once after construction and again
\* after a disconnect().
Connect(c) ==
  /\ ~hung[c] /\ ~destroyed[c]
  /\ afterDisconnect[c] # "no"
  /\ connect(c)
  /\ afterDisconnect' = [afterDisconnect EXCEPT ![c] = "no"]
  /\ last' = [last EXCEPT ![c] = Event("connect")]
  /\ UNCHANGED <<envVars, yDoc, reconnectAttempts, reconnectTimeout, isConnected,
                 messageQueue, hung, destroyed, nextEdit, everSent,
                 offlineEdits, delays, heard>>

\* The timer set by scheduleReconnect fires: reconnectTimeout = null; connect().
ReconnectTimer(c) ==
  /\ ~hung[c]
  /\ reconnectTimeout[c] # 0
  /\ reconnectTimeout' = [reconnectTimeout EXCEPT ![c] = 0]
  /\ connect(c)
  /\ afterDisconnect' = [afterDisconnect EXCEPT ![c] =
                           IF @ = "yes" THEN "reopened" ELSE @]
  /\ last' = [last EXCEPT ![c] = Event("timer")]
  /\ UNCHANGED <<envVars, yDoc, reconnectAttempts, isConnected, messageQueue, hung,
                 destroyed, nextEdit, everSent, offlineEdits, delays, heard>>

\* The body of disconnect(): clear the timer, close(1000) the current socket,
\* forget it, isConnected = false.  close() moves a CONNECTING or OPEN socket
\* to CLOSING; its close event comes later.
disconnect(c) ==
  LET ws == websocket[c]
      rs == IF ws # 0 /\ readyState[c][ws] \in {"CONNECTING", "OPEN"}
              THEN [readyState[c] EXCEPT ![ws] = "CLOSING"]
              ELSE readyState[c]
  IN  /\ reconnectTimeout' = [reconnectTimeout EXCEPT ![c] = 0]
      /\ readyState' = [readyState EXCEPT ![c] = Collect(rs, 0)]
      /\ websocket' = [websocket EXCEPT ![c] = 0]
      /\ isConnected' = [isConnected EXCEPT ![c] = FALSE]

Disconnect(c) ==
  /\ ~hung[c] /\ ~destroyed[c]
  /\ afterDisconnect[c] = "no"
  /\ disconnect(c)
  /\ afterDisconnect' = [afterDisconnect EXCEPT ![c] = "yes"]
  /\ last' = [last EXCEPT ![c] = Event("disconnect")]
  /\ UNCHANGED <<envVars, yDoc, reconnectAttempts, messageQueue, hung, destroyed, sent,
                 nextEdit, synced, everSent, offlineEdits, delays, pinged, heard>>

\* destroy(): disconnect(), then yDoc.destroy(), which drops the observers.
Destroy(c) ==
  /\ ~hung[c] /\ ~destroyed[c]
  /\ disconnect(c)
  /\ destroyed' = [destroyed EXCEPT ![c] = TRUE]
  /\ afterDisconnect' = [afterDisconnect EXCEPT ![c] = "yes"]
  /\ last' = [last EXCEPT ![c] = Event("destroy")]
  /\ UNCHANGED <<envVars, yDoc, reconnectAttempts, messageQueue, hung, sent, nextEdit,
                 synced, everSent, offlineEdits, delays, pinged, heard>>

\* An 'update' observer that forwards updates of any origin.
updateObserverAnyOrigin(c, update, origin) ==
  IF isConnected[c]
    THEN sendMessage(websocket[c], readyState[c], messageQueue[c], sent[c],
                     SyncUpdate(update), sendThrows[c])
    ELSE [queue |-> messageQueue[c], out |-> sent[c]]

\* The 'update' observer of the Y.Doc: an update whose origin is not 'server'
\* is sent as sync_update when isConnected; nothing is done otherwise.
updateObserver(c, update, origin) ==
  IF origin # "server" /\ isConnected[c]
    THEN sendMessage(websocket[c], readyState[c], messageQueue[c], sent[c],
                     SyncUpdate(update), sendThrows[c])
    ELSE [queue |-> messageQueue[c], out |-> sent[c]]

\* A local edit of the Y.Doc: the 'update' observer runs with the origin of
\* the edit.
LocalEdit(c) ==
  LET f == <<c, nextEdit[c] + 1>>
      r == updateObserver(c, {f}, "local")
  IN  /\ ~hung[c] /\ ~destroyed[c]
      /\ nextEdit[c] < MaxEdits
      /\ nextEdit' = [nextEdit EXCEPT ![c] = @ + 1]
      /\ yDoc' = [yDoc EXCEPT ![c] = @ \cup {f}]
      /\ messageQueue' = [messageQueue EXCEPT ![c] = r.queue]
      /\ sent' = [sent EXCEPT ![c] = r.out]
      /\ everSent' = [everSent EXCEPT ![c] = @ \cup SentUpdates(r.out)]
      /\ offlineEdits' = [offlineEdits EXCEPT ![c] =
                            IF Offline(c) THEN @ \cup {f} ELSE @]
      /\ last' = [last EXCEPT ![c] = Event("edit")]
      /\ UNCHANGED <<envVars, websocket, readyState, reconnectAttempts, reconnectTimeout,
                     isConnected, hung, destroyed, synced, delays,
                     afterDisconnect, pinged, heard>>

\* ---------------------------------------------------------------------------
\* CollaborationManager: socket event handlers
\* ---------------------------------------------------------------------------

\* onopen of socket s: isConnected = true; reconnectAttempts = 0;
\* flushMessageQueue(); sendMessage(sync_step1).  Both go through
\* this.websocket, which need not be s.
OnOpen(c, s) ==
  LET rs == [readyState[c] EXCEPT ![s] = "OPEN"]
      fl == flushMessageQueue(websocket[c], rs, messageQueue[c], sent[c], TRUE,
                              sendThrows[c])
      r  == sendMessage(websocket[c], rs, fl.queue, fl.out, SyncStep1,
                        sendThrows[c])
  IN  /\ ~hung[c]
      /\ readyState[c][s] = "CONNECTING"
      /\ readyState' = [readyState EXCEPT ![c] = rs]
      /\ isConnected' = [isConnected EXCEPT ![c] = TRUE]
      /\ reconnectAttempts' = [reconnectAttempts EXCEPT ![c] = 0]
      /\ IF fl.diverges
           THEN /\ hung' = [hung EXCEPT ![c] = TRUE]
                /\ UNCHANGED <<messageQueue, sent, everSent>>
           ELSE /\ messageQueue' = [messageQueue EXCEPT ![c] = r.queue]
                /\ sent' = [sent EXCEPT ![c] = r.out]
                /\ everSent' = [everSent EXCEPT ![c] = @ \cup SentUpdates(r.out)]
                /\ UNCHANGED hung
      /\ delays' = [delays EXCEPT ![c] = <<>>]
      /\ last' = [last EXCEPT ![c] = Event("onopen")]
      /\ heard' = [heard EXCEPT ![c] = {}]
      /\ UNCHANGED <<envVars, yDoc, websocket, reconnectTimeout, destroyed, nextEdit,
                     synced, offlineEdits, afterDisconnect, pinged>>

\* The closing handshake of an OPEN socket starts (the server or the network
\* ends the connection): readyState is CLOSING until the close event.
SocketClosing(c, s) ==
  /\ ~hung[c]
  /\ readyState[c][s] = "OPEN"
  /\ readyState' = [readyState EXCEPT ![c][s] = "CLOSING"]
  /\ UNCHANGED <<yDoc, websocket, reconnectAttempts, reconnectTimeout,
                 isConnected, messageQueue, hung, destroyed, sent, nextEdit>>
  /\ UNCHANGED <<histVars, envVars>>

\* onclose of socket s with the given close code.  What was sent on s and not
\* yet received is lost with the socket.
onclose(c, s, code) ==
  LET sr == IF ShouldReconnect(code, reconnectAttempts[c])
              THEN scheduleReconnect(reconnectTimeout[c], reconnectAttempts[c])
              ELSE [timeout |-> reconnectTimeout[c],
                    attempts |-> reconnectAttempts[c], scheduled |-> FALSE]
  IN  /\ ~hung[c]
      /\ readyState[c][s] \in {"CONNECTING", "OPEN", "CLOSING"}
      /\ readyState' = [readyState EXCEPT ![c] =
                          Collect([@ EXCEPT ![s] = "CLOSED"], websocket[c])]
      /\ isConnected' = [isConnected EXCEPT ![c] = FALSE]
      /\ reconnectTimeout' = [reconnectTimeout EXCEPT ![c] = sr.timeout]
      /\ reconnectAttempts' = [reconnectAttempts EXCEPT ![c] = sr.attempts]
      /\ delays' = [delays EXCEPT ![c] =
                      IF sr.scheduled THEN Append(@, sr.timeout) ELSE @]
      /\ last' = [last EXCEPT ![c] = [op |-> "onclose", code |-> code,
                                      reconnect |-> FALSE]]
      /\ sent' = [sent EXCEPT ![c][s] = <<>>]
      /\ synced' = [synced EXCEPT ![c][s] = FALSE]
      /\ pinged' = [pinged EXCEPT ![c][s] = 0]
      /\ UNCHANGED <<yDoc, websocket, messageQueue, hung, destroyed, nextEdit,
                     everSent, offlineEdits, afterDisconnect, heard>>

OnClose(c, s, code) ==
  /\ onclose(c, s, code)
  /\ UNCHANGED envVars

\* ---------------------------------------------------------------------------
\* CollaborationManager.handleMessage, one definition for each case of the
\* switch; s is the socket whose onmessage fired
\* ---------------------------------------------------------------------------

\* An applyUpdate that replaces the document by the update.
applyUpdateReplace(doc, update) == update

\* Y.applyUpdate: the update is merged into the document.  A document is the
\* set of the fragments merged into it.
applyUpdate(doc, update) == doc \cup update

\* What the sync_step2 and sync_update cases of handleMessage do to the
\* document: decode the state or the update and apply it.
applyIncoming(doc, m) ==
  IF m.type = "sync_step2"
    THEN applyUpdate(doc, base64ToArrayBuffer(m.state))
    ELSE applyUpdate(doc, base64ToArrayBuffer(m.update))

\* sync_step2: Y.applyUpdate(yDoc, state, 'server'); the 'update' observer
\* runs with the origin 'server'.
handleSyncStep2(c, s, m) ==
  LET r == updateObserver(c, base64ToArrayBuffer(m.state), "server")
  IN  /\ yDoc' = [yDoc EXCEPT ![c] = applyIncoming(@, m)]
      /\ messageQueue' = [messageQueue EXCEPT ![c] = r.queue]
      /\ sent' = [sent EXCEPT ![c] = r.out]
      /\ synced' = [synced EXCEPT ![c][s] = TRUE]
      /\ last' = [last EXCEPT ![c] = Event("sync_step2")]
      /\ UNCHANGED <<websocket, readyState, reconnectAttempts, reconnectTimeout,
                     isConnected, hung, destroyed, nextEdit, everSent,
                     offlineEdits, delays, afterDisconnect, pinged, heard>>

\* A sync_update case that does not apply the update to the document.
handleSyncUpdateDiscarded(c, s, m) ==
  /\ last' = [last EXCEPT ![c] = Event("sync_update")]
  /\ UNCHANGED <<mgrVars, synced, everSent, offlineEdits, delays,
                 afterDisconnect, pinged, heard>>

\* sync_update: Y.applyUpdate(yDoc, update, 'server'); the 'update' observer
\* runs with the origin 'server'.
handleSyncUpdate(c, s, m) ==
  LET r == updateObserver(c, base64ToArrayBuffer(m.update), "server")
  IN  /\ yDoc' = [yDoc EXCEPT ![c] = applyIncoming(@, m)]
      /\ messageQueue' = [messageQueue EXCEPT ![c] = r.queue]
      /\ sent' = [sent EXCEPT ![c] = r.out]
      /\ last' = [last EXCEPT ![c] = Event("sync_update")]
      /\ UNCHANGED <<websocket, readyState, reconnectAttempts, reconnectTimeout,
                     isConnected, hung, destroyed, nextEdit, synced, everSent,
                     offlineEdits, delays, afterDisconnect, pinged, heard>>

\* ping: sendMessage({type: pong}).
handlePing(c, s, m) ==
  LET r == sendMessage(websocket[c], readyState[c], messageQueue[c], sent[c], Pong,
                       sendThrows[c])
  IN  /\ messageQueue' = [messageQueue EXCEPT ![c] = r.queue]
      /\ sent' = [sent EXCEPT ![c] = r.out]
      /\ last' = [last EXCEPT ![c] = Event("ping")]
      /\ pinged' = [pinged EXCEPT ![c][s] = @ + 1]
      /\ UNCHANGED <<yDoc, websocket, readyState, reconnectAttempts,
                     reconnectTimeout, isConnected, hung, destroyed, nextEdit,
                     synced, everSent, offlineEdits, delays, afterDisconnect,
                     heard>>

\* A default case that treats an unknown type as fatal.
handleOtherFatal(c, s, m) ==
  /\ last' = [last EXCEPT ![c] = [op |-> m.type, code |-> 0, reconnect |-> FALSE]]
  /\ isConnected' = [isConnected EXCEPT ![c] = FALSE]
  /\ UNCHANGED <<yDoc, websocket, readyState, reconnectAttempts,
                 reconnectTimeout, messageQueue, hung, destroyed, sent, nextEdit,
                 synced, everSent, offlineEdits, delays, afterDisconnect,
                 pinged, heard>>

\* error, and the default case (unknown type): logged, no field changes.
handleOther(c, s, m) ==
  /\ last' = [last EXCEPT ![c] = [op |-> m.type, code |-> 0, reconnect |-> FALSE]]
  /\ UNCHANGED <<mgrVars, synced, everSent, offlineEdits, delays,
                 afterDisconnect, pinged, heard>>

\* server_shutdown: scheduleReconnect() when message.reconnect.
handleServerShutdown(c, s, m) ==
  LET sr == IF m.reconnect
              THEN scheduleReconnect(reconnectTimeout[c], reconnectAttempts[c])
              ELSE [timeout |-> reconnectTimeout[c],
                    attempts |-> reconnectAttempts[c], scheduled |-> FALSE]
  IN  /\ reconnectTimeout' = [reconnectTimeout EXCEPT ![c] = sr.timeout]
      /\ reconnectAttempts' = [reconnectAttempts EXCEPT ![c] = sr.attempts]
      /\ delays' = [delays EXCEPT ![c] =
                      IF sr.scheduled THEN Append(@, sr.timeout) ELSE @]
      /\ last' = [last EXCEPT ![c] = [op |-> "server_shutdown", code |-> 0,
                                      reconnect |-> m.reconnect]]
      /\ UNCHANGED <<yDoc, websocket, readyState, isConnected, messageQueue,
                     hung, destroyed, sent, nextEdit, synced, everSent,
                     offlineEdits, afterDisconnect, pinged, heard>>

\* ---------------------------------------------------------------------------
\* Initial state: every manager as its constructor leaves it, an empty
\* document session, nobody present
\* ---------------------------------------------------------------------------
Init ==
  /\ yDoc = [c \in Clients |-> {}]
  /\ websocket = [c \in Clients |-> 0]
  /\ readyState = [c \in Clients |-> [s \in Socks |-> "NONE"]]
  /\ reconnectAttempts = [c \in Clients |-> 0]
  /\ reconnectTimeout = [c \in Clients |-> 0]
  /\ isConnected = [c \in Clients |-> FALSE]
  /\ messageQueue = [c \in Clients |-> <<>>]
  /\ hung = [c \in Clients |-> FALSE]
  /\ destroyed = [c \in Clients |-> FALSE]
  /\ sent = [c \in Clients |-> [s \in Socks |-> <<>>]]
  /\ nextEdit = [c \in Clients |-> 0]
  /\ last = [c \in Clients |-> Event("new")]
  /\ synced = [c \in Clients |-> [s \in Socks |-> FALSE]]
  /\ everSent = [c \in Clients |-> {}]
  /\ offlineEdits = [c \in Clients |-> {}]
  /\ delays = [c \in Clients |-> <<>>]
  /\ afterDisconnect = [c \in Clients |-> "new"]
  /\ pinged = [c \in Clients |-> [s \in Socks |-> 0]]
  /\ heard = [c \in Clients |-> {}]
  /\ srvDoc = {}
  /\ conns = {}
  /\ s2c = [c \in Clients |-> [s \in Socks |-> <<>>]]
  /\ activeUsers = [c \in Clients |-> <<>>]
  /\ cursors = [c \in Clients |-> [u \in {} |-> 0]]
  /\ present = {}
  /\ relay = {}
  /\ leftSeen = [c \in Clients |-> {}]
  /\ localState = [c \in Clients |-> 0]
  /\ editorContent = LoadedContent
  /\ documentContent = LoadedContent
  /\ hasUnsavedChanges = FALSE
  /\ autoSaveTimer = NoTimer
  /\ inFlight = NoRequest
  /\ storedContent = LoadedContent
  /\ sinceEdit = [waiting |-> FALSE, age |-> 0]
  /\ lastAutoSave = [made |-> FALSE, content |-> LoadedContent,
                     editor |-> LoadedContent]
  /\ burst = [c \in Clients |-> 0]
  /\ sendThrows = [c \in Clients |-> FALSE]
  /\ titleValue = LoadedTitle
  /\ docTitle = LoadedTitle
  /\ editingTitle = FALSE
  /\ titleFocus = FALSE
  /\ titleReq = NoTitleRequest
  /\ newDocTitle = ""
  /\ lastRequest = NoneSent
  /\ lateSave = NoLateSave
  /\ autoSaves = 0
  /\ emailInput = ""
  /\ loading = FALSE
  /\ error = NoMessage
  /\ successMessage = NoMessage
  /\ collaborators = {}
  /\ sharePhase = "idle"
  /\ searchData = <<>>
  /\ shareUser = NoAccount
  /\ sharedWith = {}

\* ---------------------------------------------------------------------------
\* Spec: one manager (Solo) against an arbitrary server and network.  Any
\* message may arrive on any socket that can deliver, any socket may close
\* with any close code.
\* ---------------------------------------------------------------------------

\* Fragments a server message can carry to c: those of the other clients and
\* those c has transmitted.
Known(c) == {f \in Frags : f[1] # c} \cup everSent[c]

RecvSyncStep2(c) ==
  \E s \in Socks : \E st \in SUBSET Known(c) :
    /\ Receiving(c, s)
    /\ handleSyncStep2(c, s, SyncStep2(st))
    /\ UNCHANGED envVars

RecvSyncUpdate(c) ==
  \E s \in Socks : \E f \in Known(c) :
    /\ Receiving(c, s)
    /\ handleSyncUpdate(c, s, SyncUpdate({f}))
    /\ UNCHANGED envVars

RecvPing(c) ==
  \E s \in Socks :
    /\ Receiving(c, s)
    /\ Pongs(c) < MaxPings
    /\ pinged[c][s] < MaxPings
    /\ handlePing(c, s, Ping)
    /\ UNCHANGED envVars

RecvOther(c) ==
  \E s \in Socks : \E m \in {ErrorMsg, UnknownMsg} :
    /\ Receiving(c, s)
    /\ handleOther(c, s, m)
    /\ UNCHANGED envVars

RecvServerShutdown(c) ==
  \E s \in Socks : \E r \in BOOLEAN :
    /\ Receiving(c, s)
    /\ reconnectAttempts[c] < AttemptCap
    /\ handleServerShutdown(c, s, ServerShutdown(r))
    /\ UNCHANGED envVars

\* Spec: the connection life cycle of one manager: the application connects,
\* disconnects and destroys; sockets open and close with any code; the server
\* announces shutdowns; the reconnect timer fires.  At most RetryCap
\* reconnects in a row.
Next ==
  \/ Connect(Solo)
  \/ Disconnect(Solo)
  \/ Destroy(Solo)
  \/ ReconnectTimer(Solo)
  \/ \E s \in Socks : OnOpen(Solo, s)
  \/ \E s \in Socks : \E code \in CloseCodes :
       reconnectAttempts[Solo] < RetryCap /\ OnClose(Solo, s, code)
  \/ reconnectAttempts[Solo] < RetryCap /\ RecvServerShutdown(Solo)

Spec == Init /\ [][Next]_vars

\* SpecBackoff: a manager that the application connects once and leaves to
\* its reconnection logic, through any number of failures in a row.
BackoffNext ==
  \/ Connect(Solo)
  \/ ReconnectTimer(Solo)
  \/ \E s \in Socks : OnOpen(Solo, s)
  \/ \E s \in Socks : \E code \in CloseCodes : OnClose(Solo, s, code)
  \/ RecvServerShutdown(Solo)

SpecBackoff == Init /\ [][BackoffNext]_vars

\* SpecEdit: one manager with local edits, heartbeats and the messages of the
\* sync protocol; sockets fail or close normally; at most RetryCap reconnects
\* in a row.
EditNext ==
  \/ Connect(Solo)
  \/ LocalEdit(Solo)
  \/ ReconnectTimer(Solo)
  \/ \E s \in Socks : OnOpen(Solo, s)
  \/ \E s \in Socks : SocketClosing(Solo, s)
  \/ \E s \in Socks : \E code \in {NormalClosure, 1006} :
       reconnectAttempts[Solo] < RetryCap /\ OnClose(Solo, s, code)
  \/ RecvSyncStep2(Solo)
  \/ RecvSyncUpdate(Solo)
  \/ RecvPing(Solo)
  \/ RecvOther(Solo)

SpecEdit == Init /\ [][EditNext]_vars

\* SpecHeartbeat: the pings of the server while connections come and go: the
\* server announces a shutdown, sockets close abnormally, the client
\* reconnects.
HeartbeatNext ==
  \/ Connect(Solo)
  \/ ReconnectTimer(Solo)
  \/ \E s \in Socks : OnOpen(Solo, s)
  \/ \E s \in Socks : SocketClosing(Solo, s)
  \/ \E s \in Socks : \E code \in {NormalClosure, 1006} :
       reconnectAttempts[Solo] < HeartbeatRetryCap /\ OnClose(Solo, s, code)
  \/ reconnectAttempts[Solo] < HeartbeatRetryCap /\ RecvServerShutdown(Solo)
  \/ RecvPing(Solo)

SpecHeartbeat == Init /\ [][HeartbeatNext]_vars

\* websocket.send starts or stops throwing.
SendFailure(c) ==
  /\ ~hung[c]
  /\ sendThrows' = [sendThrows EXCEPT ![c] = ~@]
  /\ UNCHANGED <<mgrVars, histVars, srvVars, awVars, pageVars, rateVars,
                 titleVars, saveVars, shareVars>>

\* SpecQueue: the outgoing queue of one manager: local edits, pongs and state
\* requests are handed to sendMessage while sockets open, start closing and
\* close, websocket.send may throw, the server announces shutdowns and the
\* client reconnects, at most RetryCap times in a row.
QueueNext ==
  \/ Connect(Solo)
  \/ LocalEdit(Solo)
  \/ ReconnectTimer(Solo)
  \/ \E s \in Socks : OnOpen(Solo, s)
  \/ \E s \in Socks : SocketClosing(Solo, s)
  \/ \E s \in Socks : \E code \in {NormalClosure, 1006} :
       reconnectAttempts[Solo] < RetryCap /\ OnClose(Solo, s, code)
  \/ reconnectAttempts[Solo] < RetryCap /\ RecvServerShutdown(Solo)
  \/ RecvPing(Solo)
  \/ SendFailure(Solo)

SpecQueue == Init /\ [][QueueNext]_vars


\* ---------------------------------------------------------------------------
\* The synchronisation server (one document session)
\* ---------------------------------------------------------------------------

\* The server accepts the connection of socket s and registers it.
ServerAccept(c, s) ==
  /\ readyState[c][s] = "CONNECTING"
  /\ <<c, s>> \notin conns
  /\ conns' = conns \cup {<<c, s>>}
  /\ s2c' = [s2c EXCEPT ![c][s] = <<>>]
  /\ UNCHANGED <<mgrVars, histVars, srvDoc, awVars, pageVars, netVars, saveVars, shareVars, titleVars, rateVars>>

\* sync_step1 received: answer sync_step2 with the current state.
ServerSyncStep1(c, s) ==
  /\ <<c, s>> \in conns
  /\ sent[c][s] # <<>> /\ Head(sent[c][s]).type = "sync_step1"
  /\ sent' = [sent EXCEPT ![c][s] = Tail(@)]
  /\ s2c' = [s2c EXCEPT ![c][s] = Append(@, SyncStep2(srvDoc))]
  /\ UNCHANGED <<yDoc, websocket, readyState, reconnectAttempts,
                 reconnectTimeout, isConnected, messageQueue, hung, destroyed,
                 nextEdit, histVars, srvDoc, conns, awVars, pageVars, netVars, saveVars, shareVars, titleVars, rateVars>>

\* sync_update received: merge it and broadcast it to every other connection.
ServerSyncUpdate(c, s) ==
  LET m == Head(sent[c][s])
  IN  /\ <<c, s>> \in conns
      /\ sent[c][s] # <<>> /\ m.type = "sync_update"
      /\ sent' = [sent EXCEPT ![c][s] = Tail(@)]
      /\ srvDoc' = srvDoc \cup base64ToArrayBuffer(m.update)
      /\ s2c' = [d \in Clients |-> [t \in Socks |->
                   IF <<d, t>> \in conns /\ <<d, t>> # <<c, s>>
                     THEN Append(s2c[d][t], [type |-> "sync_update",
                                             update |-> m.update])
                     ELSE s2c[d][t]]]
      /\ UNCHANGED <<yDoc, websocket, readyState, reconnectAttempts,
                     reconnectTimeout, isConnected, messageQueue, hung,
                     destroyed, nextEdit, histVars, conns, awVars, pageVars, netVars, saveVars, shareVars, titleVars, rateVars>>

\* The open event of a socket the server has accepted.
SyncOnOpen(c, s) ==
  /\ <<c, s>> \in conns
  /\ OnOpen(c, s)

\* Both ends of the connection of socket s go down: the close event on the
\* client, and the server unregisters the connection and drops what was in
\* flight to it.
SyncOnClose(c, s, code) ==
  /\ onclose(c, s, code)
  /\ conns' = conns \ {<<c, s>>}
  /\ s2c' = [s2c EXCEPT ![c][s] = <<>>]
  /\ UNCHANGED <<srvDoc, awVars, pageVars, netVars, saveVars, shareVars, titleVars, rateVars>>

\* The head of what is in flight to socket s is delivered to onmessage.
DeliverSyncStep2(c, s) ==
  /\ Receiving(c, s)
  /\ s2c[c][s] # <<>> /\ Head(s2c[c][s]).type = "sync_step2"
  /\ handleSyncStep2(c, s, Head(s2c[c][s]))
  /\ s2c' = [s2c EXCEPT ![c][s] = Tail(@)]
  /\ UNCHANGED <<srvDoc, conns, awVars, pageVars, netVars, saveVars, shareVars, titleVars, rateVars>>

DeliverSyncUpdate(c, s) ==
  /\ Receiving(c, s)
  /\ s2c[c][s] # <<>> /\ Head(s2c[c][s]).type = "sync_update"
  /\ handleSyncUpdate(c, s, Head(s2c[c][s]))
  /\ s2c' = [s2c EXCEPT ![c][s] = Tail(@)]
  /\ UNCHANGED <<srvDoc, conns, awVars, pageVars, netVars, saveVars, shareVars, titleVars, rateVars>>

\* SpecSync: every client against the server; connections fail and are
\* re-established by the reconnect timer, at most RetryCap times in a row.
SyncNext ==
  \E c \in Clients :
    \/ Connect(c)
    \/ LocalEdit(c)
    \/ ReconnectTimer(c)
    \/ \E s \in Socks : ServerAccept(c, s)
    \/ \E s \in Socks : SyncOnOpen(c, s)
    \/ \E s \in Socks : SocketClosing(c, s)
    \/ \E s \in Socks : reconnectAttempts[c] < RetryCap /\ SyncOnClose(c, s, 1006)
    \/ \E s \in Socks : ServerSyncStep1(c, s)
    \/ \E s \in Socks : ServerSyncUpdate(c, s)
    \/ \E s \in Socks : DeliverSyncStep2(c, s)
    \/ \E s \in Socks : DeliverSyncUpdate(c, s)

SpecSync == Init /\ [][SyncNext]_vars

\* ---------------------------------------------------------------------------
\* AwarenessManager: the presence list and the cursors of a client, fed by
\* the manager's onUserJoined / onUserLeft / onAwarenessUpdate callbacks
\* ---------------------------------------------------------------------------
currentUserId(c) == c
Positions == 0..MaxPos

UserJoined(u) == [type |-> "user_joined", user |-> [user_id |-> u, username |-> u]]
UserLeft(u) == [type |-> "user_left", user_id |-> u, username |-> u]
AwarenessUpdate(u, p) ==
  [type |-> "awareness_update", awareness |-> [user_id |-> u, cursor_position |-> p]]

InList(list, u) == \E i \in 1..Len(list) : list[i] = u
Filter(list, u) == SelectSeq(list, LAMBDA x : x # u)

\* A handleUserJoined that appends whoever joins.
handleUserJoinedAppend(c, user) ==
  /\ activeUsers' = [activeUsers EXCEPT ![c] = Append(@, user.user_id)]
  /\ UNCHANGED cursors

\* handleUserJoined: our own user is not added, a user already listed is not
\* added twice.
handleUserJoined(c, user) ==
  /\ activeUsers' = [activeUsers EXCEPT ![c] =
                       IF user.user_id = currentUserId(c) \/ InList(@, user.user_id)
                         THEN @ ELSE Append(@, user.user_id)]
  /\ UNCHANGED cursors

\* handleUserLeft: the user is filtered out of the list and its cursor is
\* deleted from the map.
handleUserLeft(c, user_id, username) ==
  /\ activeUsers' = [activeUsers EXCEPT ![c] = Filter(@, user_id)]
  /\ cursors' = [cursors EXCEPT ![c] = [u \in DOMAIN @ \ {user_id} |-> @[u]]]

\* A handleAwarenessUpdate that keeps the first entry it has for a user.
handleAwarenessUpdateKeepFirst(c, awareness) ==
  /\ cursors' = [cursors EXCEPT ![c] =
                   IF awareness.user_id = currentUserId(c) THEN @
                   ELSE [u \in DOMAIN @ \cup {awareness.user_id} |->
                           IF u \in DOMAIN @ THEN @[u]
                           ELSE awareness.cursor_position]]
  /\ UNCHANGED activeUsers

\* handleAwarenessUpdate: our own cursor is not tracked; any other user's
\* entry is set in the map.
handleAwarenessUpdate(c, awareness) ==
  /\ cursors' = [cursors EXCEPT ![c] =
                   IF awareness.user_id = currentUserId(c) THEN @
                   ELSE [u \in DOMAIN @ \cup {awareness.user_id} |->
                           IF u = awareness.user_id
                             THEN awareness.cursor_position ELSE @[u]]]
  /\ UNCHANGED activeUsers

\* handleMessage, cases user_joined / user_left / awareness_update: the
\* message is handed to the registered callback.
handlePresence(c, s, m) ==
  /\ CASE m.type = "user_joined" -> handleUserJoined(c, m.user)
       [] m.type = "user_left" -> handleUserLeft(c, m.user_id, m.username)
       [] m.type = "awareness_update" -> handleAwarenessUpdate(c, m.awareness)
  /\ last' = [last EXCEPT ![c] = Event(m.type)]
  /\ heard' = [heard EXCEPT ![c] =
                 CASE m.type = "user_joined" -> @ \cup {m.user.user_id}
                   [] m.type = "user_left" -> @ \ {m.user_id}
                   [] m.type = "awareness_update" -> @ \cup {m.awareness.user_id}]
  /\ UNCHANGED <<mgrVars, synced, everSent, offlineEdits, delays,
                 afterDisconnect, pinged>>

\* A user connects to the document: user_joined is published.
UserJoins(u) ==
  /\ u \notin present
  /\ present' = present \cup {u}
  /\ relay' = relay \cup {UserJoined(u)}
  /\ leftSeen' = [c \in Clients |-> leftSeen[c] \ {u}]
  /\ UNCHANGED <<mgrVars, histVars, srvVars, pageVars, netVars, saveVars, shareVars, titleVars, rateVars, activeUsers, cursors,
                 localState>>

\* A connected user moves its cursor: awareness_update is published.
UserMoves(u) ==
  \E p \in Positions :
    /\ u \in present
    /\ relay' = relay \cup {AwarenessUpdate(u, p)}
    /\ UNCHANGED <<mgrVars, histVars, srvVars, pageVars, netVars, saveVars, shareVars, titleVars, rateVars, activeUsers, cursors,
                   present, leftSeen, localState>>

\* A user's connection closes: user_left is published.
UserLeaves(u) ==
  /\ u \in present
  /\ present' = present \ {u}
  /\ relay' = relay \cup {UserLeft(u)}
  /\ UNCHANGED <<mgrVars, histVars, srvVars, pageVars, netVars, saveVars, shareVars, titleVars, rateVars, activeUsers, cursors,
                 leftSeen, localState>>

\* A published presence message reaches client c on a socket that delivers.
\* It stays published: it may be delivered again, and in any order.
RecvPresence(c) ==
  \E s \in Socks : \E m \in relay :
    /\ Receiving(c, s)
    /\ handlePresence(c, s, m)
    /\ leftSeen' = [leftSeen EXCEPT ![c] =
                      IF m.type = "user_left" /\ m.user_id \notin present
                        THEN @ \cup {m.user_id} ELSE @]
    /\ UNCHANGED <<srvVars, pageVars, netVars, saveVars, shareVars, titleVars, rateVars, present, relay, localState>>

\* SpecAware: the presence view of one client while users join, move their
\* cursors and leave.
AwareNext ==
  \/ Connect(Solo)
  \/ ReconnectTimer(Solo)
  \/ \E s \in Socks : OnOpen(Solo, s)
  \/ \E s \in Socks : reconnectAttempts[Solo] < RetryCap /\ OnClose(Solo, s, 1006)
  \/ \E u \in Clients : UserJoins(u)
  \/ \E u \in Clients : UserMoves(u)
  \/ \E u \in Clients : UserLeaves(u)
  \/ RecvPresence(Solo)
  \/ RecvOther(Solo)

SpecAware == Init /\ [][AwareNext]_vars

\* ---------------------------------------------------------------------------
\* SpecPresence: two clients, each with its manager and its AwarenessManager,
\* and the presence traffic of the server (modelled from the protocol
\* contract): user_joined goes to every connection of the document when a
\* connection is accepted, awareness_update is relayed to all other
\* connections, user_left goes to the remaining connections at a close.
\* Every connection delivers in order.
\* ---------------------------------------------------------------------------
Broadcast(q, to, m) ==
  [d \in Clients |-> [t \in Socks |->
     IF <<d, t>> \in to THEN Append(q[d][t], m) ELSE q[d][t]]]

Backlog == \E d \in Clients : \E t \in Socks : Len(s2c[d][t]) >= MaxInFlight

\* The server accepts the connection of socket s, registers it and announces
\* the user to every connection of the document, the new one included.
ServerJoin(c, s) ==
  /\ readyState[c][s] = "CONNECTING"
  /\ <<c, s>> \notin conns
  /\ ~Backlog
  /\ conns' = conns \cup {<<c, s>>}
  /\ s2c' = Broadcast([s2c EXCEPT ![c][s] = <<>>], conns \cup {<<c, s>>},
                      UserJoined(c))
  /\ UNCHANGED <<mgrVars, histVars, srvDoc, awVars, pageVars, netVars, saveVars, shareVars, titleVars, rateVars>>

\* updateAwareness with a new cursor position p: the 'change' observer sends
\* the local state when isConnected, and does nothing otherwise.
updateAwareness(c, p) ==
  LET r == sendMessage(websocket[c], readyState[c], messageQueue[c], sent[c],
                       AwarenessUpdate(c, p), sendThrows[c])
  IN  /\ ~hung[c] /\ ~destroyed[c]
      /\ ~Backlog
      /\ Count(messageQueue[c], "awareness_update")
           + CountOut(sent[c], MaxSockets, "awareness_update") < MaxInFlight
      /\ localState' = [localState EXCEPT ![c] = p]
      /\ IF isConnected[c]
           THEN /\ messageQueue' = [messageQueue EXCEPT ![c] = r.queue]
                /\ sent' = [sent EXCEPT ![c] = r.out]
           ELSE UNCHANGED <<messageQueue, sent>>
      /\ UNCHANGED <<yDoc, websocket, readyState, reconnectAttempts,
                     reconnectTimeout, isConnected, hung, destroyed, nextEdit,
                     histVars, srvVars, pageVars, netVars, saveVars, shareVars, titleVars, activeUsers, cursors,
                     present, relay, leftSeen>>

CursorMove(c) ==
  \E p \in Positions \ {localState[c]} :
    updateAwareness(c, p) /\ UNCHANGED rateVars

\* awareness_update received by the server: relayed to all other connections.
ServerAwareness(c, s) ==
  LET m == Head(sent[c][s])
  IN  /\ <<c, s>> \in conns
      /\ sent[c][s] # <<>> /\ m.type = "awareness_update"
      /\ sent' = [sent EXCEPT ![c][s] = Tail(@)]
      /\ s2c' = Broadcast(s2c, conns \ {<<c, s>>}, m)
      /\ UNCHANGED <<yDoc, websocket, readyState, reconnectAttempts,
                     reconnectTimeout, isConnected, messageQueue, hung,
                     destroyed, nextEdit, histVars, srvDoc, conns, awVars,
                     pageVars, netVars, saveVars, shareVars, titleVars, rateVars>>

\* The head of what is in flight to socket s is a presence message.
DeliverPresence(c, s) ==
  /\ Receiving(c, s)
  /\ s2c[c][s] # <<>>
  /\ Head(s2c[c][s]).type \in {"user_joined", "user_left", "awareness_update"}
  /\ handlePresence(c, s, Head(s2c[c][s]))
  /\ s2c' = [s2c EXCEPT ![c][s] = Tail(@)]
  /\ UNCHANGED <<srvDoc, conns, pageVars, netVars, saveVars, shareVars, titleVars, rateVars, present, relay, leftSeen, localState>>

\* Both ends of the connection of socket s go down; the server tells the
\* remaining connections that the user left.
PresenceOnClose(c, s, code) ==
  /\ onclose(c, s, code)
  /\ <<c, s>> \in conns
  /\ ~Backlog
  /\ conns' = conns \ {<<c, s>>}
  /\ s2c' = Broadcast([s2c EXCEPT ![c][s] = <<>>], conns \ {<<c, s>>},
                      UserLeft(c))
  /\ UNCHANGED <<srvDoc, awVars, pageVars, netVars, saveVars, shareVars, titleVars, rateVars>>

PresenceNext ==
  \E c \in Clients :
    \/ Connect(c)
    \/ ReconnectTimer(c)
    \/ CursorMove(c)
    \/ \E s \in Socks : ServerJoin(c, s)
    \/ \E s \in Socks : SyncOnOpen(c, s)
    \/ \E s \in Socks : reconnectAttempts[c] < RetryCap /\ PresenceOnClose(c, s, 1006)
    \/ \E s \in Socks : ServerSyncStep1(c, s)
    \/ \E s \in Socks : ServerAwareness(c, s)
    \/ \E s \in Socks : DeliverSyncStep2(c, s)
    \/ \E s \in Socks : DeliverPresence(c, s)

SpecPresence == Init /\ [][PresenceNext]_vars

\* The cursor moves while the clock shows the same second: the message the
\* 'change' observer transmits is counted.
RapidCursorMove(c) ==
  \E p \in Positions \ {localState[c]} :
    /\ burst[c] < MaxBurst
    /\ updateAwareness(c, p)
    /\ burst' = [burst EXCEPT ![c] =
                   IF isConnected[c] /\ websocket[c] # 0
                        /\ readyState[c][websocket[c]] = "OPEN"
                     THEN @ + 1 ELSE @]

\* The next second begins.
Second ==
  /\ \E c \in Clients : burst[c] # 0
  /\ burst' = [c \in Clients |-> 0]
  /\ UNCHANGED <<mgrVars, histVars, srvVars, awVars, pageVars, netVars, saveVars, shareVars, titleVars>>

\* SpecBurst: one client moves its cursor at any pace while the server takes
\* what it sends; the connection may fail and is re-established.
BurstNext ==
  \/ Connect(Solo)
  \/ ReconnectTimer(Solo)
  \/ RapidCursorMove(Solo)
  \/ Second
  \/ \E s \in Socks : ServerJoin(Solo, s)
  \/ \E s \in Socks : SyncOnOpen(Solo, s)
  \/ \E s \in Socks : reconnectAttempts[Solo] < RetryCap /\ PresenceOnClose(Solo, s, 1006)
  \/ \E s \in Socks : ServerSyncStep1(Solo, s)
  \/ \E s \in Socks : ServerAwareness(Solo, s)
  \/ \E s \in Socks : DeliverSyncStep2(Solo, s)
  \/ \E s \in Socks : DeliverPresence(Solo, s)

SpecBurst == Init /\ [][BurstNext]_vars

\* ---------------------------------------------------------------------------
\* DocumentEditPage with its CodeMirrorEditor.  Time is counted in seconds.
\* The editor's init effect runs once, at mount, so the onChange and onSave
\* the editor calls are the handleContentChange and saveDocument of the render
\* it was mounted in: in them, document is the document as loaded and
\* autoSaveTimer is null.
\* ---------------------------------------------------------------------------

\* handleContentChange as the editor holds it: document.content becomes the
\* new content and a timer of 15 s is set.  The timer it replaces is cleared
\* by the cleanup of the effect on autoSaveTimer.
handleContentChange(newContent) ==
  /\ documentContent' = newContent
  /\ hasUnsavedChanges' = TRUE
  /\ autoSaveTimer' = [pending |-> TRUE, left |-> AutoSaveDelay]

\* The content saveDocument sends when it is called through the editor or
\* through the auto-save timer: document.content of the mount render.
MountSaveContent == LoadedContent

\* The title saveDocument sends in the same cases: titleValue of the mount
\* render.
MountSaveTitle == LoadedTitle

\* The user changes the text in the editor (which has the focus):
\* updateListener calls onChange.
EditContent ==
  \E v \in Contents \ {editorContent} :
    /\ ~titleFocus
    /\ editorContent' = v
    /\ handleContentChange(v)
    /\ sinceEdit' = IF sinceEdit.waiting THEN sinceEdit
                    ELSE [waiting |-> TRUE, age |-> 0]
    /\ autoSaves' = 0
    /\ UNCHANGED <<inFlight, storedContent, lastAutoSave, lateSave>>
    /\ UNCHANGED <<mgrVars, histVars, srvVars, awVars, rateVars, netVars, shareVars, titleVars>>

\* One second passes.  A timer that is due fires first.
Tick ==
  /\ ~(autoSaveTimer.pending /\ autoSaveTimer.left = 0)
  /\ sinceEdit.age < MaxAge
  /\ autoSaveTimer' = IF autoSaveTimer.pending
                        THEN [autoSaveTimer EXCEPT !.left = @ - 1]
                        ELSE autoSaveTimer
  /\ sinceEdit' = IF sinceEdit.waiting
                    THEN [sinceEdit EXCEPT !.age = @ + 1] ELSE sinceEdit
  /\ UNCHANGED <<editorContent, documentContent, hasUnsavedChanges, inFlight,
                 storedContent, lastAutoSave>>
  /\ UNCHANGED <<mgrVars, histVars, srvVars, awVars, rateVars, netVars, saveVars, shareVars, titleVars>>

\* The auto-save timer fires: saveDocument() of the mount render sends the
\* update request.
AutoSaveFires ==
  /\ autoSaveTimer.pending /\ autoSaveTimer.left = 0
  /\ ~inFlight.pending
  /\ autoSaveTimer' = NoTimer
  /\ inFlight' = [pending |-> TRUE, content |-> MountSaveContent,
                  title |-> MountSaveTitle]
  /\ lastRequest' = [sent |-> TRUE, path |-> "auto-save", title |-> MountSaveTitle]
  /\ lastAutoSave' = [made |-> TRUE, content |-> MountSaveContent,
                      editor |-> editorContent]
  /\ sinceEdit' = [waiting |-> FALSE, age |-> 0]
  /\ UNCHANGED <<editorContent, documentContent, hasUnsavedChanges,
                 storedContent>>
  /\ UNCHANGED <<titleValue, docTitle, editingTitle, titleFocus, titleReq,
                 newDocTitle>>
  /\ autoSaves' = autoSaves + 1
  /\ UNCHANGED lateSave
  /\ UNCHANGED <<mgrVars, histVars, srvVars, awVars, rateVars, netVars, shareVars>>

\* The Save button (enabled with unsaved changes and no save going on) calls
\* the saveDocument of the current render, which sends the current titleValue
\* and document.content.  A click on the button takes the focus from the
\* title input first (TitleBlur).
SaveButton ==
  /\ hasUnsavedChanges /\ ~inFlight.pending
  /\ ~titleFocus
  /\ inFlight' = [pending |-> TRUE, content |-> documentContent,
                  title |-> titleValue]
  /\ lastRequest' = [sent |-> TRUE, path |-> "save", title |-> titleValue]
  /\ sinceEdit' = [waiting |-> FALSE, age |-> 0]
  /\ UNCHANGED <<editorContent, documentContent, hasUnsavedChanges,
                 autoSaveTimer, storedContent, lastAutoSave>>
  /\ UNCHANGED <<titleValue, docTitle, editingTitle, titleFocus, titleReq,
                 newDocTitle>>
  /\ UNCHANGED <<mgrVars, histVars, srvVars, awVars, rateVars, netVars, saveVars, shareVars>>

\* Ctrl-S in the editor (which has the focus): the onSave the editor was
\* mounted with, the saveDocument of the mount render.
CtrlS ==
  /\ ~titleFocus /\ ~inFlight.pending
  /\ inFlight' = [pending |-> TRUE, content |-> MountSaveContent,
                  title |-> MountSaveTitle]
  /\ lastRequest' = [sent |-> TRUE, path |-> "ctrl-s", title |-> MountSaveTitle]
  /\ sinceEdit' = [waiting |-> FALSE, age |-> 0]
  /\ UNCHANGED <<editorContent, documentContent, hasUnsavedChanges,
                 autoSaveTimer, storedContent, lastAutoSave>>
  /\ UNCHANGED <<titleValue, docTitle, editingTitle, titleFocus, titleReq,
                 newDocTitle>>
  /\ UNCHANGED <<mgrVars, histVars, srvVars, awVars, rateVars, netVars, saveVars, shareVars>>

\* setDocument(updated) with the document the API returned: document.title
\* and document.content are replaced; the editor's value effect then replaces
\* the editor content when it differs, which calls onChange again.
setDocument(title, content, saved) ==
  /\ docTitle' = title
  /\ editorContent' = content
  /\ IF content # editorContent
       THEN handleContentChange(content)
       ELSE /\ documentContent' = content
            /\ hasUnsavedChanges' = (hasUnsavedChanges /\ ~saved)
            /\ UNCHANGED autoSaveTimer

\* The update request of saveDocument is answered.  On success:
\* setDocument(updated), setHasUnsavedChanges(false).
SaveResponse ==
  \E ok \in BOOLEAN :
    /\ inFlight.pending
    /\ inFlight' = NoRequest
    /\ IF ~ok
         THEN UNCHANGED <<editorContent, documentContent, hasUnsavedChanges,
                          autoSaveTimer, storedContent, docTitle>>
         ELSE /\ storedContent' = inFlight.content
              /\ setDocument(inFlight.title, inFlight.content, TRUE)
    /\ UNCHANGED <<sinceEdit, lastAutoSave>>
    /\ UNCHANGED <<titleValue, editingTitle, titleFocus, titleReq, newDocTitle,
                   lastRequest>>
    /\ UNCHANGED <<mgrVars, histVars, srvVars, awVars, rateVars, netVars, saveVars, shareVars>>

SaveNext ==
  \/ EditContent
  \/ Tick
  \/ AutoSaveFires
  \/ SaveButton
  \/ SaveResponse

SpecSave == Init /\ [][SaveNext]_vars

\* Ctrl-S in the editor while a save request is in flight: saveDocument has
\* no test for a save going on, so a second request is made, with the content
\* and the title of the mount render.
CtrlSWhileSaving ==
  /\ ~titleFocus /\ inFlight.pending /\ ~lateSave.pending
  /\ lateSave' = [pending |-> TRUE, content |-> MountSaveContent,
                  title |-> MountSaveTitle, stored |-> FALSE]
  /\ lastRequest' = [sent |-> TRUE, path |-> "ctrl-s", title |-> MountSaveTitle]
  /\ sinceEdit' = [waiting |-> FALSE, age |-> 0]
  /\ UNCHANGED <<editorContent, documentContent, hasUnsavedChanges,
                 autoSaveTimer, inFlight, storedContent, lastAutoSave>>
  /\ UNCHANGED <<titleValue, docTitle, editingTitle, titleFocus, titleReq,
                 newDocTitle, autoSaves>>
  /\ UNCHANGED <<mgrVars, histVars, srvVars, awVars, rateVars, netVars, shareVars>>

\* The storage takes the content of the second request.  Its response is
\* still on its way, and the first request may be handled after it.
LateSaveStored ==
  /\ lateSave.pending /\ ~lateSave.stored
  /\ storedContent' = lateSave.content
  /\ lateSave' = [lateSave EXCEPT !.stored = TRUE]
  /\ UNCHANGED <<editorContent, documentContent, hasUnsavedChanges,
                 autoSaveTimer, inFlight, sinceEdit, lastAutoSave, autoSaves>>
  /\ UNCHANGED <<mgrVars, histVars, srvVars, awVars, rateVars, netVars, shareVars,
                 titleVars>>

\* The second request is answered: with the updated document when the
\* storage has taken it, with an error when it has not.  On success:
\* setDocument(updated), setHasUnsavedChanges(false).
LateSaveResponse ==
  \E ok \in BOOLEAN :
    /\ lateSave.pending /\ ok = lateSave.stored
    /\ lateSave' = NoLateSave
    /\ IF ~ok
         THEN UNCHANGED <<editorContent, documentContent, hasUnsavedChanges,
                          autoSaveTimer, docTitle>>
         ELSE setDocument(lateSave.title, lateSave.content, TRUE)
    /\ UNCHANGED <<inFlight, storedContent, sinceEdit, lastAutoSave, autoSaves>>
    /\ UNCHANGED <<titleValue, editingTitle, titleFocus, titleReq, newDocTitle,
                   lastRequest>>
    /\ UNCHANGED <<mgrVars, histVars, srvVars, awVars, rateVars, netVars, shareVars>>

\* SpecOverlap: the edit page with save requests that overlap: the Save
\* button and Ctrl-S make requests, the storage handles them and the
\* responses arrive in any order.
OverlapNext ==
  \/ EditContent
  \/ SaveButton
  \/ CtrlS
  \/ CtrlSWhileSaving
  \/ LateSaveStored
  \/ LateSaveResponse
  \/ SaveResponse

SpecOverlap == Init /\ [][OverlapNext]_vars

\* ---------------------------------------------------------------------------
\* The title of DocumentEditPage and the create form of DocumentsPage
\* ---------------------------------------------------------------------------

\* String.prototype.trim on the titles of the model.
trim(s) == CASE s = " " -> "" [] s = " B" -> "B" [] OTHER -> s

\* A click on the title shows the input, which takes the focus (autoFocus).
StartTitleEdit ==
  /\ ~editingTitle
  /\ editingTitle' = TRUE
  /\ titleFocus' = TRUE
  /\ UNCHANGED <<titleValue, docTitle, titleReq, newDocTitle, lastRequest>>
  /\ UNCHANGED <<mgrVars, histVars, srvVars, awVars, rateVars, pageVars, netVars, saveVars, shareVars>>

\* The user puts the focus back on the title input.
FocusTitle ==
  /\ editingTitle /\ ~titleFocus
  /\ titleFocus' = TRUE
  /\ UNCHANGED <<titleValue, docTitle, editingTitle, titleReq, newDocTitle,
                 lastRequest>>
  /\ UNCHANGED <<mgrVars, histVars, srvVars, awVars, rateVars, pageVars, netVars, saveVars, shareVars>>

\* The user types in the title input: setTitleValue.
TypeTitle ==
  \E v \in Titles \ {titleValue} :
    /\ editingTitle /\ titleFocus
    /\ titleValue' = v
    /\ UNCHANGED <<docTitle, editingTitle, titleFocus, titleReq, newDocTitle,
                   lastRequest>>
    /\ UNCHANGED <<mgrVars, histVars, srvVars, awVars, rateVars, pageVars, netVars, saveVars, shareVars>>

\* handleTitleChange up to its await: an unchanged title ends the editing, a
\* blank one is replaced by document.title, any other is sent.  focus tells
\* whether the input keeps the focus when it stays.
handleTitleChange(focus) ==
  /\ IF titleValue = docTitle
       THEN /\ editingTitle' = FALSE
            /\ UNCHANGED <<titleValue, titleReq, lastRequest>>
       ELSE IF trim(titleValue) = ""
         THEN /\ titleValue' = docTitle
              /\ editingTitle' = FALSE
              /\ UNCHANGED <<titleReq, lastRequest>>
         ELSE /\ titleReq' = [pending |-> TRUE, title |-> titleValue]
              /\ lastRequest' = [sent |-> TRUE, path |-> "title",
                                 title |-> titleValue]
              /\ UNCHANGED <<titleValue, editingTitle>>
  /\ titleFocus' = (focus /\ editingTitle')
  /\ UNCHANGED <<docTitle, newDocTitle>>
  /\ UNCHANGED <<mgrVars, histVars, srvVars, awVars, rateVars, pageVars, netVars, saveVars, shareVars>>

\* Enter in the title input.
TitleEnter ==
  /\ editingTitle /\ titleFocus /\ ~titleReq.pending
  /\ handleTitleChange(TRUE)

\* The title input loses the focus.
TitleBlur ==
  /\ editingTitle /\ titleFocus /\ ~titleReq.pending
  /\ handleTitleChange(FALSE)

\* The update request of handleTitleChange is answered.  On success:
\* setDocument(updated), setEditingTitle(false); the input is unmounted.
TitleResponse ==
  \E ok \in BOOLEAN :
    /\ titleReq.pending
    /\ titleReq' = NoTitleRequest
    /\ IF ok
         THEN /\ setDocument(titleReq.title, storedContent, FALSE)
              /\ editingTitle' = FALSE
              /\ titleFocus' = FALSE
         ELSE UNCHANGED <<docTitle, editorContent, documentContent,
                          hasUnsavedChanges, autoSaveTimer, editingTitle,
                          titleFocus>>
    /\ UNCHANGED <<titleValue, newDocTitle, lastRequest>>
    /\ UNCHANGED <<inFlight, storedContent, sinceEdit, lastAutoSave>>
    /\ UNCHANGED <<mgrVars, histVars, srvVars, awVars, rateVars, netVars, saveVars, shareVars>>

\* The user types in the input of the create form: setNewDocTitle.
TypeNewTitle ==
  \E v \in Titles \ {newDocTitle} :
    /\ newDocTitle' = v
    /\ UNCHANGED <<titleValue, docTitle, editingTitle, titleFocus, titleReq,
                   lastRequest>>
    /\ UNCHANGED <<mgrVars, histVars, srvVars, awVars, rateVars, pageVars, netVars, saveVars, shareVars>>

\* handleCreateDocument (Enter in the input, or the Create button): a blank
\* title is refused, any other is sent.
handleCreateDocument ==
  /\ lastRequest' = IF trim(newDocTitle) = "" THEN lastRequest
                    ELSE [sent |-> TRUE, path |-> "create", title |-> newDocTitle]
  /\ UNCHANGED <<titleValue, docTitle, editingTitle, titleFocus, titleReq,
                 newDocTitle>>
  /\ UNCHANGED <<mgrVars, histVars, srvVars, awVars, rateVars, pageVars, netVars, saveVars, shareVars>>

\* SpecTitle: the title and the content of a document are edited and saved by
\* every path but the timer, whose saveDocument is the one of Ctrl-S; documents
\* are created.
TitleNext ==
  \/ StartTitleEdit
  \/ FocusTitle
  \/ TypeTitle
  \/ TitleEnter
  \/ TitleBlur
  \/ TitleResponse
  \/ TypeNewTitle
  \/ handleCreateDocument
  \/ EditContent
  \/ SaveButton
  \/ CtrlS
  \/ SaveResponse

SpecTitle == Init /\ [][TitleNext]_vars

\* ---------------------------------------------------------------------------
\* ShareDialog: the dialog is open and its list of collaborators is loaded
\* ---------------------------------------------------------------------------
EnterEmail == "Please enter an email address"
UserNotFound == "User not found with that email address"
ShareFailed == "Failed to share document"
Shared == "Successfully shared"

pageAndManager == <<mgrVars, histVars, srvVars, awVars, pageVars, rateVars,
                    titleVars, netVars, saveVars>>

\* A test of the email that lets every input pass.
blankEmailNever(email) == FALSE

\* !emailInput.trim()
blankEmail(email) == trim(email) = ""

\* The user types in the email input (disabled while loading).
TypeEmail ==
  \E e \in Emails \ {emailInput} :
    /\ ~loading
    /\ emailInput' = e
    /\ UNCHANGED <<loading, error, successMessage, collaborators, sharePhase,
                   searchData, shareUser, sharedWith>>
    /\ UNCHANGED pageAndManager

\* handleShare up to its first await: a blank email is refused with an
\* error; otherwise the loading flag is set, the messages are cleared and the
\* email search is requested.
handleShare ==
  /\ IF blankEmail(emailInput)
       THEN /\ error' = EnterEmail
            /\ UNCHANGED <<loading, successMessage, sharePhase>>
       ELSE /\ loading' = TRUE
            /\ error' = NoMessage
            /\ successMessage' = NoMessage
            /\ sharePhase' = "search"
  /\ UNCHANGED <<emailInput, collaborators, searchData, shareUser, sharedWith>>
  /\ UNCHANGED pageAndManager

\* Enter in the email input (disabled while loading).
PressEnter == ~loading /\ handleShare

\* A click on the Share button (disabled while loading and for a blank
\* email).
ClickShare == ~loading /\ trim(emailInput) # "" /\ handleShare

\* The email search fails: the catch branch shows an error.
SearchFails ==
  /\ sharePhase = "search"
  /\ sharePhase' = "idle"
  /\ error' = ShareFailed
  /\ loading' = FALSE
  /\ UNCHANGED <<emailInput, successMessage, collaborators, searchData,
                 shareUser, sharedWith>>
  /\ UNCHANGED pageAndManager

\* The email search answers with data: with no user, an error is shown and
\* handleShare returns; otherwise the share request is made for data[0].id.
SearchResponse(data) ==
  /\ sharePhase = "search"
  /\ searchData' = data
  /\ IF data = <<>>
       THEN /\ error' = UserNotFound
            /\ loading' = FALSE
            /\ sharePhase' = "idle"
            /\ UNCHANGED shareUser
       ELSE /\ shareUser' = data[1]
            /\ sharePhase' = "share"
            /\ UNCHANGED <<error, loading>>
  /\ UNCHANGED <<emailInput, successMessage, collaborators, sharedWith>>
  /\ UNCHANGED pageAndManager

\* The share request is answered.  On success the list becomes
\* response.data.shared_with and the input is cleared.
ShareResponse ==
  \E ok \in BOOLEAN :
    /\ sharePhase = "share"
    /\ sharePhase' = "idle"
    /\ loading' = FALSE
    /\ IF ok
         THEN /\ sharedWith' = sharedWith \cup {shareUser}
              /\ successMessage' = Shared
              /\ emailInput' = ""
              /\ collaborators' = sharedWith \cup {shareUser}
              /\ UNCHANGED error
         ELSE /\ error' = ShareFailed
              /\ UNCHANGED <<sharedWith, successMessage, emailInput,
                             collaborators>>
    /\ UNCHANGED <<searchData, shareUser>>
    /\ UNCHANGED pageAndManager

\* The close button of the error alert.
DismissError ==
  /\ error # NoMessage
  /\ error' = NoMessage
  /\ UNCHANGED <<emailInput, loading, successMessage, collaborators,
                 sharePhase, searchData, shareUser, sharedWith>>
  /\ UNCHANGED pageAndManager

\* SpecShare: the user types emails and shares; the search and the share
\* request succeed or fail.
ShareNext ==
  \/ TypeEmail
  \/ ClickShare
  \/ PressEnter
  \/ SearchFails
  \/ \E data \in SearchResults : SearchResponse(data)
  \/ ShareResponse
  \/ DismissError

SpecShare == Init /\ [][ShareNext]_vars

\* ===========================================================================
\* Properties
\* ===========================================================================

\* C1 (as claimed): every local edit made while the transport is closed or a
\* reconnect is pending is retained: it is in the outgoing queue as a
\* sync_update, or it has been transmitted.
C1_OfflineEditsRetained ==
  \A f \in offlineEdits[Solo] :
    f \in UpdatesIn(messageQueue[Solo]) \cup everSent[Solo]

\* C2 (as claimed): a socket carries a sync_update of the client only after
\* the sync_step2 of that socket has been applied.
C2_NoUpdateBeforeState ==
  \A s \in Socks : UpdatesIn(sent[Solo][s]) # {} => synced[Solo][s]

\* C5: the delays scheduled since the last successful connection are, in
\* order, min(2^k, 30) seconds for k = 0, 1, 2, ...
C5_BackoffSequence ==
  \A i \in 1..Len(delays[Solo]) :
    delays[Solo][i] = 1000 * Min(Pow2(i - 1), 30)

\* C5 witness: the sequence has reached its cap.
C5_Witness ==
  /\ Len(delays[Solo]) >= 7
  /\ delays[Solo][6] = 30000 /\ delays[Solo][7] = 30000

\* C6 (as claimed): once a server_shutdown with reconnect = true is handled,
\* the reconnect attempt has been made: no timer is awaited and the current
\* socket is a new, connecting one.
C6_ImmediateReconnect ==
  (last[Solo].op = "server_shutdown" /\ last[Solo].reconnect) =>
    /\ reconnectTimeout[Solo] = 0
    /\ websocket[Solo] # 0
    /\ readyState[Solo][websocket[Solo]] = "CONNECTING"

\* C6 (amended): once a server_shutdown with reconnect = true is handled, a
\* reconnect timer is pending whose delay is a backoff delay of 1 to 30 s; the
\* attempt waits for that timer.
C6_ReconnectAfterBackoff ==
  (last[Solo].op = "server_shutdown" /\ last[Solo].reconnect) =>
    /\ reconnectTimeout[Solo] >= 1000
    /\ reconnectTimeout[Solo] <= 30000

\* C6 witness: a shutdown notice was handled on an open connection and the
\* manager waits for the timer.
C6_Witness ==
  /\ last[Solo].op = "server_shutdown" /\ last[Solo].reconnect
  /\ isConnected[Solo]
  /\ websocket[Solo] # 0 /\ readyState[Solo][websocket[Solo]] = "OPEN"
  /\ reconnectTimeout[Solo] = 1000

\* C7 (as claimed): after a close with a fatal code (1008, 4003, 4004) no
\* reconnect is pending.
C7_NoRetryAfterFatalClose ==
  (last[Solo].op = "onclose" /\ last[Solo].code \in FatalCodes) =>
    reconnectTimeout[Solo] = 0

\* C8 (as claimed): after a close with a code other than 1000 the client is
\* disconnected and a reconnect is pending.
C8_AlwaysReconnects ==
  last[Solo].op = "onclose" =>
    /\ ~isConnected[Solo]
    /\ last[Solo].code # 1000 => reconnectTimeout[Solo] # 0

\* C8 (amended): after a close with a code other than 1000 the client is
\* disconnected, and a reconnect is pending unless 10 reconnects have been
\* scheduled since the last successful connection; a close with code 1000
\* schedules nothing.
C8_ReconnectsUpToMax ==
  /\ [](last[Solo].op = "onclose" =>
          /\ ~isConnected[Solo]
          /\ last[Solo].code # 1000 =>
               (reconnectTimeout[Solo] # 0 \/ reconnectAttempts[Solo] >= 10))
  /\ [][\A s \in Socks : OnClose(Solo, s, 1000) =>
          /\ reconnectTimeout'[Solo] = reconnectTimeout[Solo]
          /\ reconnectAttempts'[Solo] = reconnectAttempts[Solo]]_vars

\* C8 witness: the tenth reconnect in a row has failed and nothing is pending.
C8_Witness ==
  /\ last[Solo].op = "onclose" /\ last[Solo].code # 1000
  /\ reconnectAttempts[Solo] = 10
  /\ reconnectTimeout[Solo] = 0
  /\ ~isConnected[Solo]

\* C9 (as claimed): after disconnect() or destroy(), until the application
\* calls connect() again, no reconnect is pending and none has been made.
C9_NoReconnectAfterDisconnect ==
  afterDisconnect[Solo] \in {"yes", "reopened"} =>
    /\ reconnectTimeout[Solo] = 0
    /\ afterDisconnect[Solo] # "reopened"


\* Every client is connected and has completed the handshake on its current
\* socket, and nothing is queued or in flight in either direction.
Quiescent ==
  \A c \in Clients :
    /\ isConnected[c] /\ ~hung[c]
    /\ websocket[c] # 0
    /\ readyState[c][websocket[c]] = "OPEN"
    /\ synced[c][websocket[c]]
    /\ messageQueue[c] = <<>>
    /\ \A s \in Socks : sent[c][s] = <<>> /\ s2c[c][s] = <<>>

\* The fragments client c has made.
Made(c) == {f \in Frags : f[1] = c /\ f[2] <= nextEdit[c]}
AllMade == UNION {Made(c) : c \in Clients}

\* C3 (as claimed): when a client that edited with its transport down has
\* reconnected and resynced and everything is delivered, its state, the
\* server's state and every other client's state are the same, and hold the
\* fragments it made while disconnected.
C3_ReconnectRecoversState ==
  \A c \in Clients :
    (Quiescent /\ offlineEdits[c] # {}) =>
      /\ offlineEdits[c] \subseteq srvDoc
      /\ \A d \in Clients : yDoc[d] = srvDoc

C10_LeftStaysAbsent ==
  \A u \in leftSeen[Solo] :
    ~InList(activeUsers[Solo], u) /\ u \notin DOMAIN cursors[Solo]


\* Both clients are connected and registered, have completed the handshake,
\* and no message is queued or in flight.
Settled ==
  \A c \in Clients :
    /\ isConnected[c] /\ ~hung[c]
    /\ websocket[c] # 0
    /\ readyState[c][websocket[c]] = "OPEN"
    /\ <<c, websocket[c]>> \in conns
    /\ synced[c][websocket[c]]
    /\ messageQueue[c] = <<>>
    /\ \A s \in Socks : sent[c][s] = <<>> /\ s2c[c][s] = <<>>

\* C11 (as claimed): when two users are connected to the document and all
\* presence traffic is delivered, each of them has the other in its list of
\* active users.
C11_SeeEachOther ==
  Settled =>
    \A c \in Clients : \A d \in Clients \ {c} : InList(activeUsers[c], d)


\* C12 (as claimed): the content the auto-save timer sends in its save request
\* is the content the editor has when the timer fires.
C12_AutoSaveSendsEditorContent ==
  lastAutoSave.made => lastAutoSave.content = lastAutoSave.editor

\* C13 (as claimed): no edit waits longer than one auto-save interval for a
\* save request.
C13_SavedWithinInterval ==
  sinceEdit.waiting => sinceEdit.age <= AutoSaveDelay


\* C14: handling a message of unknown type changes nothing: the document,
\* the connected flag, the outgoing queue, the reconnect state, what was sent
\* and the state of every socket are as before.
C14_UnknownIgnored ==
  [][\A s \in Socks :
       (Receiving(Solo, s) /\ handleOther(Solo, s, UnknownMsg)) =>
         /\ yDoc'[Solo] = yDoc[Solo]
         /\ isConnected'[Solo] = isConnected[Solo]
         /\ messageQueue'[Solo] = messageQueue[Solo]
         /\ reconnectTimeout'[Solo] = reconnectTimeout[Solo]
         /\ reconnectAttempts'[Solo] = reconnectAttempts[Solo]
         /\ sent'[Solo] = sent[Solo]
         /\ websocket'[Solo] = websocket[Solo]
         /\ readyState'[Solo] = readyState[Solo]]_vars

\* C14 witness: an unknown message was handled on the open connection of a
\* client that has edited, and the client is still connected.
C14_Witness ==
  /\ last[Solo].op = UnknownMsg.type
  /\ isConnected[Solo]
  /\ websocket[Solo] # 0 /\ readyState[Solo][websocket[Solo]] = "OPEN"
  /\ yDoc[Solo] # {}
  /\ sent[Solo][websocket[Solo]] # <<>>

\* C15 (as claimed): on every socket, the pongs sent are as many as the
\* pings received on it.
C15_PongPerPing ==
  \A s \in Socks : Count(sent[Solo][s], "pong") = pinged[Solo][s]

\* C16 (as claimed): a socket that has carried a sync_update carried the
\* sync_step1 of its handshake first.
C16_HandshakeBeforeFlush ==
  \A s \in Socks :
    UpdatesIn(sent[Solo][s]) # {} => Head(sent[Solo][s]).type = "sync_step1"


\* The users the presence view of c shows: listed as active, or with a cursor.
Shown(c) == {u \in Clients : InList(activeUsers[c], u)} \cup DOMAIN cursors[c]

\* C17 (as claimed): a connected client shows only users it has heard of on
\* its current connection.
C17_EmptyAfterReconnect ==
  (isConnected[Solo] /\ websocket[Solo] # 0
     /\ readyState[Solo][websocket[Solo]] = "OPEN") =>
    Shown(Solo) \subseteq heard[Solo]

\* An awareness_update of user u with position p is processed in this step.
ProcessesAwareness(u, p) ==
  \E s \in Socks :
    /\ AwarenessUpdate(u, p) \in relay
    /\ Receiving(Solo, s)
    /\ handlePresence(Solo, s, AwarenessUpdate(u, p))

\* C19 (as claimed): after an awareness_update of any user is processed, the
\* cursor entry of that user is the content of the message.
C19_LastMessageWins ==
  [][\A u \in Clients : \A p \in Positions :
       ProcessesAwareness(u, p) =>
         (u \in DOMAIN cursors'[Solo] /\ cursors'[Solo][u] = p)]_vars

\* C19 (amended): after an awareness_update of a user other than the client's
\* own is processed, the cursor entry of that user is the content of the
\* message and no other entry has changed; processing a message whose content
\* the map already holds changes nothing; the client's own awareness_update
\* changes nothing.
C19_LastMessageOfOthersWins ==
  [][\A u \in Clients : \A p \in Positions :
       ProcessesAwareness(u, p) =>
         IF u = currentUserId(Solo)
           THEN cursors'[Solo] = cursors[Solo]
           ELSE /\ u \in DOMAIN cursors'[Solo] /\ cursors'[Solo][u] = p
                /\ DOMAIN cursors'[Solo] = DOMAIN cursors[Solo] \cup {u}
                /\ \A v \in DOMAIN cursors[Solo] \ {u} :
                     cursors'[Solo][v] = cursors[Solo][v]
                /\ (u \in DOMAIN cursors[Solo] /\ cursors[Solo][u] = p) =>
                     cursors'[Solo] = cursors[Solo]]_vars

\* C19 witness: two different awareness_update messages of another user were
\* published and the map holds the later position.
C19_Witness ==
  /\ \A p \in Positions : AwarenessUpdate("c2", p) \in relay
  /\ "c2" \in DOMAIN cursors[Solo]
  /\ cursors[Solo]["c2"] = MaxPos


\* The awareness_update messages c has sent or queued and the server has not
\* taken yet.
Announced(c) ==
  Count(messageQueue[c], "awareness_update")
    + CountOut(sent[c], MaxSockets, "awareness_update")

\* C18 (as claimed): when a connected client processes the user_joined of
\* another client, it sends its current awareness again.
C18_PeersReannounce ==
  [][\A c \in Clients : \A s \in Socks :
       ( /\ isConnected[c] /\ websocket[c] = s
         /\ s2c[c][s] # <<>>
         /\ Head(s2c[c][s]).type = "user_joined"
         /\ Head(s2c[c][s]).user.user_id # currentUserId(c)
         /\ DeliverPresence(c, s) ) =>
         Announced(c)' > Announced(c)]_vars


\* The state responses and the updates that can arrive.
Incoming ==
  {SyncStep2(st) : st \in SUBSET Frags} \cup {SyncUpdate(u) : u \in SUBSET Frags}

C21_AtMostRatePerSecond ==
  \A c \in Clients : burst[c] <= MaxAwarenessRate


\* The sockets of c that are open.
OpenSockets(c) == {s \in Socks : readyState[c][s] = "OPEN"}

\* C22 (as claimed): a manager never has more than one open transport, also
\* after a server_shutdown and the reconnect that follows it.
C22_OneOpenTransport ==
  Cardinality(OpenSockets(Solo)) <= 1


\* C23 (as claimed): no create or update request carries a title that is
\* empty or consists of white space only.
C23_NoBlankTitleSent ==
  lastRequest.sent => trim(lastRequest.title) # ""


\* The current transport of c is open.
CurrentOpen(c) ==
  websocket[c] # 0 /\ readyState[c][websocket[c]] = "OPEN"

\* C24 (as claimed): the close event of a superseded transport leaves the
\* manager connected while its current transport is open.
C24_StaleCloseKeepsConnected ==
  [][\A s \in Socks : \A code \in CloseCodes :
       ( /\ isConnected[Solo] /\ CurrentOpen(Solo) /\ s # websocket[Solo]
         /\ OnClose(Solo, s, code) ) =>
         isConnected'[Solo]]_vars


\* C25: a step that applies a state response or an update received from the
\* server leaves the outgoing queue and what was sent on every socket as they
\* were: no message is sent or queued.
C25_NoEcho ==
  [][\A s \in Socks : \A m \in Incoming :
       ( /\ Receiving(Solo, s)
         /\ \/ m.type = "sync_step2" /\ handleSyncStep2(Solo, s, m)
            \/ m.type = "sync_update" /\ handleSyncUpdate(Solo, s, m) ) =>
         /\ messageQueue'[Solo] = messageQueue[Solo]
         /\ sent'[Solo] = sent[Solo]]_vars

\* C25 witness: the manager is connected on an open socket on which it has
\* sent an edit of its own, and has applied a remote edit coming from the
\* server.
C25_Witness ==
  /\ isConnected[Solo] /\ CurrentOpen(Solo)
  /\ synced[Solo][websocket[Solo]]
  /\ Count(sent[Solo][websocket[Solo]], "sync_update") >= 1
  /\ \E f \in yDoc[Solo] : f[1] # Solo


\* C28 (as claimed): flushMessageQueue terminates whenever it is called.
C28_FlushTerminates ==
  ~hung[Solo]


\* What a step hands to sendMessage: the sync_update of a local edit made
\* while isConnected, the pong that answers a ping, the sync_step1 of an
\* onopen whose flush has ended.
HandedNow ==
  IF nextEdit'[Solo] # nextEdit[Solo]
    THEN (IF isConnected[Solo]
            THEN <<SyncUpdate({<<Solo, nextEdit'[Solo]>>})>> ELSE <<>>)
    ELSE IF \E s \in Socks : pinged'[Solo][s] = pinged[Solo][s] + 1
      THEN <<Pong>>
      ELSE IF /\ \E s \in Socks : /\ readyState[Solo][s] = "CONNECTING"
                                  /\ readyState'[Solo][s] = "OPEN"
              /\ ~hung'[Solo]
        THEN <<SyncStep1>>
        ELSE <<>>

\* What a step hands to websocket.send, in order: what is new on the current
\* socket.
SentNow ==
  LET ws == websocket[Solo]
  IN  IF ws = 0 \/ websocket'[Solo] # ws
           \/ Len(sent'[Solo][ws]) < Len(sent[Solo][ws])
        THEN <<>>
        ELSE SubSeq(sent'[Solo][ws], Len(sent[Solo][ws]) + 1,
                    Len(sent'[Solo][ws]))

\* In a step, what was sent on a socket stays, except that a socket that
\* closes or is created starts empty; only the current socket gets more.
WireKept ==
  \A s \in Socks :
    \/ sent'[Solo][s] = sent[Solo][s]
    \/ /\ s = websocket[Solo] /\ s = websocket'[Solo]
       /\ Len(sent'[Solo][s]) > Len(sent[Solo][s])
       /\ SubSeq(sent'[Solo][s], 1, Len(sent[Solo][s])) = sent[Solo][s]
    \/ /\ sent'[Solo][s] = <<>>
       /\ readyState'[Solo][s] # readyState[Solo][s]
       /\ readyState'[Solo][s] \in {"CLOSED", "NONE", "CONNECTING"}

Occ(q, m) == Cardinality({i \in 1..Len(q) : q[i] = m})
Range(q) == {q[i] : i \in 1..Len(q)}

\* C26: in every step, each message is as often in what the step sends plus
\* the queue after it as in the queue before it plus what the step hands to
\* sendMessage, and nothing sent before is taken back or sent again: no
\* message is lost, none is duplicated.
C26_NoLossNoDuplicate ==
  [][/\ WireKept
     /\ \A m \in Range(SentNow) \cup Range(messageQueue'[Solo])
                   \cup Range(messageQueue[Solo]) \cup Range(HandedNow) :
          Occ(SentNow, m) + Occ(messageQueue'[Solo], m)
            = Occ(messageQueue[Solo], m) + Occ(HandedNow, m)]_vars

\* C26 witness: a message that was queued while the socket was closing has
\* been sent on the socket of the reconnect, and the queue is empty.
C26_Witness ==
  /\ CurrentOpen(Solo) /\ messageQueue[Solo] = <<>>
  /\ sent[Solo][websocket[Solo]] # <<>>
  /\ Head(sent[Solo][websocket[Solo]]).type = "sync_update"

\* C27 (as claimed): in every step, what the step sends followed by the queue
\* after it is the queue before it followed by what the step hands to
\* sendMessage: the messages leave in the order in which they were handed
\* over, and none overtakes a message that waits in the queue.
C27_SentInOrder ==
  [][SentNow \o messageQueue'[Solo] = messageQueue[Solo] \o HandedNow]_vars

\* C29 (as claimed): the reconnect attempt counter never exceeds the
\* configured maximum, whichever event schedules the reconnect.
C29_AttemptsWithinMaximum ==
  reconnectAttempts[Solo] <= maxReconnectAttempts

\* A step in which scheduleReconnect is called: a close that is to be
\* followed by a reconnect, or a server_shutdown with reconnect = true.
CallsScheduleReconnect ==
  \/ \E s \in Socks : \E code \in CloseCodes :
       /\ ShouldReconnect(code, reconnectAttempts[Solo])
       /\ OnClose(Solo, s, code)
  \/ \E s \in Socks :
       /\ Receiving(Solo, s)
       /\ handleServerShutdown(Solo, s, ServerShutdown(TRUE))

\* C30: a call of scheduleReconnect while a timer is pending leaves the timer
\* and the attempt counter as they are and sets no timer, and a timer is set
\* only when none is pending: at most one reconnect timer is pending.
C30_OneTimerPending ==
  [][/\ (reconnectTimeout[Solo] # 0 /\ CallsScheduleReconnect) =>
          /\ reconnectTimeout'[Solo] = reconnectTimeout[Solo]
          /\ reconnectAttempts'[Solo] = reconnectAttempts[Solo]
          /\ delays'[Solo] = delays[Solo]
     /\ Len(delays'[Solo]) > Len(delays[Solo]) =>
          reconnectTimeout[Solo] = 0]_vars

\* C30 witness: a server_shutdown with reconnect = true has just been handled
\* with a timer pending: the timer is still there and the counter, reset by
\* the last onopen, is still 0.
C30_Witness ==
  /\ last[Solo].op = "server_shutdown" /\ last[Solo].reconnect
  /\ reconnectTimeout[Solo] # 0
  /\ reconnectAttempts[Solo] = 0

\* C31: the list of active users names no user twice, and neither the list
\* nor the cursor map names the current user.
C31_NoDuplicateNoSelf ==
  /\ \A i, j \in 1..Len(activeUsers[Solo]) :
       i # j => activeUsers[Solo][i] # activeUsers[Solo][j]
  /\ ~InList(activeUsers[Solo], currentUserId(Solo))
  /\ currentUserId(Solo) \notin DOMAIN cursors[Solo]

\* C31 witness: messages about the current user and about another user have
\* been handled, the last of them a user_joined; the other user is listed and
\* has a cursor.
C31_Witness ==
  /\ last[Solo] = Event("user_joined")
  /\ currentUserId(Solo) \in heard[Solo]
  /\ \E u \in Clients \ {Solo} :
       /\ u \in heard[Solo]
       /\ InList(activeUsers[Solo], u) /\ u \in DOMAIN cursors[Solo]

\* C32 (as claimed): a step in which the response of a save request is
\* applied leaves the editor content as it was: what was typed before or
\* during the request is still there.
C32_ResponseKeepsEdits ==
  [][(inFlight.pending /\ ~inFlight'.pending) =>
       editorContent' = editorContent]_vars

\* C33 (as claimed): when the page shows no unsaved changes and no save
\* request is in flight, the editor holds the content last stored.
C33_SavedMeansStored ==
  (~hasUnsavedChanges /\ ~inFlight.pending /\ ~lateSave.pending) =>
    editorContent = storedContent

\* C34 (as claimed): the changes the user makes in a row are followed by one
\* auto-save request, not by more.
C34_OneAutoSavePerBurst ==
  autoSaves <= 1

\* C35: a step that makes the share request makes it for a user of the
\* search response; a step that handles a blank email or a search response
\* with no user makes no request, shows an error, leaves the list of
\* collaborators as it is and ends with the loading flag false.
C35_ShareOnlyFoundUser ==
  [][/\ sharePhase' = "share" => InList(searchData', shareUser')
     /\ ((PressEnter /\ trim(emailInput) = "") \/ SearchResponse(<<>>)) =>
          /\ sharePhase' = "idle"
          /\ error' # NoMessage
          /\ collaborators' = collaborators
          /\ ~loading']_vars

\* C35 witness: after a document was shared, a search has found no user: the
\* error is shown, the list is still there and nothing is loading.
C35_Witness ==
  /\ error = UserNotFound /\ searchData = <<>>
  /\ sharePhase = "idle" /\ ~loading
  /\ collaborators # {}

====
